---- MODULE Spec2Model ----
(***************************************************************************)
(* HashMap<KeyType, ValueType, Hash> of src/hashtable.h: a hash table with *)
(* separate chaining whose cells hold shared pointers to (key, value)      *)
(* pairs.  KeyType and ValueType are int, Hash is std::hash<int>.          *)
(*                                                                         *)
(* Two HashMap objects, "A" and "B", live in the model so that copy and    *)
(* move assignment can be exercised.  Pair objects live in a heap that is  *)
(* indexed by address; a pair is destroyed when the last shared pointer to *)
(* it goes away.  A caller may keep a reference to a value (borrow) and a  *)
(* list of the keys it has added to "A", in the order of its calls         *)
(* (inserted).                                                             *)
(***************************************************************************)
EXTENDS Integers, Sequences, FiniteSets, TLC

VARIABLES maps, heap, last, borrow, inserted

vars == <<maps, heap, last, borrow, inserted>>

\* ---------------------------------------------------------------- constants
MIN_NUM_OF_CELLS == 10
SCALE == 4
\* ValueType() for ValueType = int
DefaultValue == 0

\* ------------------------------------------------------------------- bounds
\* keys are 0..MaxKey
MaxKey == 23
\* values are 0..MaxVal
MaxVal == 1
\* the one key that is ever given a value other than the default, and whose
\* value the caller keeps a reference to
ValuedKey == 0
\* at most MaxGen + 1 pair objects with the same key are alive at once
MaxGen == 1
\* the two-container specification uses the free keys up to MaxCopyKey
MaxCopyKey == 10
\* the caller that lists the keys it adds uses the keys up to MaxListedKey
MaxListedKey == 12

Keys == 0..MaxKey
Vals == 0..MaxVal
ValuedKeys == {ValuedKey}
\* The keys that all share cell 0 of a table of MIN_NUM_OF_CELLS cells are
\* inserted and erased freely.  The other keys only serve to move the size
\* across the rebuild thresholds: they are inserted in ascending order and
\* erased in descending order.
FreeKeys == {k \in Keys : k % MIN_NUM_OF_CELLS = 0}
Fillers == Keys \ FreeKeys
CopyKeys == {k \in FreeKeys : k <= MaxCopyKey}
MapNames == {"A", "B"}
\* a reference that is bound to nothing
NullRef == <<>>
\* the caller holds no reference
NoBorrow == [key |-> 0, ref |-> NullRef, capacity |-> 0]

Max(a, b) == IF a >= b THEN a ELSE b

\* ------------------------------------------------------------------ helpers
\* std::hash<int>: the identity on non-negative ints
hasher_(key) == key

\* the state the member functions work on; rebuilt counts the calls of
\* rebuild() made by the running member function
Store == [maps |-> maps, heap |-> heap, rebuilt |-> 0]

\* std::vector<std::vector<pair_ptr>>(n): n empty cells
RECURSIVE cells(_)
cells(n) == IF n = 0 THEN <<>> ELSE Append(cells(n - 1), <<>>)

\* table_[cell]
cell_of(m, cell) == m.table_[cell + 1]

\* the pointers of a table in cell order, i.e. in iteration order
RECURSIVE ptrs_from(_, _)
ptrs_from(table, i) ==
    IF i > Len(table) THEN <<>> ELSE table[i] \o ptrs_from(table, i + 1)

all_ptrs(table) == ptrs_from(table, 1)

Range(s) == {s[i] : i \in 1..Len(s)}

\* the addresses the cells of a table point to
ptr_set(table) == UNION {Range(table[c]) : c \in 1..Len(table)}

\* the addresses some cell of some container points to
Referenced(ms) == UNION {ptr_set(ms[n].table_) : n \in MapNames}

\* shared_ptr: a pair dies with the last pointer to it
release(S) ==
    [S EXCEPT !.heap = [a \in (DOMAIN S.heap) \cap Referenced(S.maps) |-> S.heap[a]]]

\* new std::pair<const KeyType, ValueType>(pair): a fresh address
new_pair(hp, key) ==
    <<key, CHOOSE g \in 0..MaxGen :
              /\ <<key, g>> \notin DOMAIN hp
              /\ \A g2 \in 0..(g - 1) : <<key, g2>> \in DOMAIN hp>>

CanAllocate(hp, key) == \E g \in 0..MaxGen : <<key, g>> \notin DOMAIN hp

\* position (from 1) of the first pair with this key in a cell, 0 if none
RECURSIVE scan(_, _, _, _)
scan(hp, c, key, i) ==
    IF i > Len(c) THEN 0
    ELSE IF hp[c[i]].first = key THEN i
    ELSE scan(hp, c, key, i + 1)

\* ------------------------------------------------------------------ rebuild
\* a rebuild loop that puts every pointer at the front of its new cell
RECURSIVE relink_front(_, _, _, _, _)
relink_front(for_change, ptrs, i, hp, capacity) ==
    IF i > Len(ptrs) THEN for_change
    ELSE LET ptr == ptrs[i]
             hash == hasher_(hp[ptr].first) % capacity
         IN relink_front([for_change EXCEPT ![hash + 1] = <<ptr>> \o @],
                         ptrs, i + 1, hp, capacity)

\* the loop body of rebuild, over the pointers in iteration order
RECURSIVE relink(_, _, _, _, _)
relink(for_change, ptrs, i, hp, capacity) ==
    IF i > Len(ptrs) THEN for_change
    ELSE LET ptr == ptrs[i]
             hash == hasher_(hp[ptr].first) % capacity
         IN relink([for_change EXCEPT ![hash + 1] = Append(@, ptr)],
                   ptrs, i + 1, hp, capacity)

\* a rebuild that places every pair by the capacity the table had before
rebuild_old_capacity(S, n) ==
    LET m == S.maps[n]
        capacity == Max(MIN_NUM_OF_CELLS, m.current_size_ * 2)
        for_change == relink(cells(capacity), all_ptrs(m.table_), 1, S.heap,
                             m.current_capacity_)
    IN [S EXCEPT !.maps[n] = [table_ |-> for_change,
                              current_size_ |-> m.current_size_,
                              current_capacity_ |-> capacity],
                 !.rebuilt = @ + 1]

\* a rebuild that puts a copy of every pair into the new table
copy_of(p) == <<p[1], (p[2] + 1) % (MaxGen + 1)>>

RECURSIVE copy_all(_, _)
copy_all(ptrs, i) ==
    IF i > Len(ptrs) THEN <<>> ELSE <<copy_of(ptrs[i])>> \o copy_all(ptrs, i + 1)

rebuild_copy(S, n) ==
    LET m == S.maps[n]
        capacity == Max(MIN_NUM_OF_CELLS, m.current_size_ * 2)
        old == all_ptrs(m.table_)
        hp == [a \in {copy_of(p) : p \in Range(old)} |->
                 S.heap[CHOOSE p \in Range(old) : copy_of(p) = a]]
        for_change == relink(cells(capacity), copy_all(old, 1), 1, hp, capacity)
    IN [S EXCEPT !.maps[n] = [table_ |-> for_change,
                              current_size_ |-> m.current_size_,
                              current_capacity_ |-> capacity],
                 !.heap = hp,
                 !.rebuilt = @ + 1]

\* a rebuild that doubles the capacity, not the size
rebuild_double_capacity(S, n) ==
    LET m == S.maps[n]
        capacity == Max(MIN_NUM_OF_CELLS, m.current_capacity_ * 2)
        for_change == relink(cells(capacity),
                             all_ptrs(m.table_), 1, S.heap, capacity)
    IN [S EXCEPT !.maps[n] = [table_ |-> for_change,
                              current_size_ |-> m.current_size_,
                              current_capacity_ |-> capacity],
                 !.rebuilt = @ + 1]

rebuild(S, n) ==
    LET m == S.maps[n]
        capacity == Max(MIN_NUM_OF_CELLS, m.current_size_ * 2)
        for_change == relink(cells(capacity),
                             all_ptrs(m.table_), 1, S.heap, capacity)
    IN [S EXCEPT !.maps[n] = [table_ |-> for_change,
                              current_size_ |-> m.current_size_,
                              current_capacity_ |-> capacity],
                 !.rebuilt = @ + 1]

\* a rebuild check without the test for a table that is too full
check_rebuild_no_grow(S, n) ==
    LET m == S.maps[n]
    IN IF m.current_size_ * SCALE < m.current_capacity_ THEN rebuild(S, n) ELSE S

\* a rebuild check that finds a table too sparse when it is less than half full
check_rebuild_half(S, n) ==
    LET m == S.maps[n]
        S1 == IF m.current_size_ * SCALE < m.current_capacity_ * 2
              THEN rebuild(S, n) ELSE S
        m1 == S1.maps[n]
    IN IF m1.current_size_ > m1.current_capacity_ THEN rebuild(S1, n) ELSE S1

\* a rebuild check without the test for a table that is too sparse
check_rebuild_no_shrink(S, n) ==
    LET m == S.maps[n]
    IN IF m.current_size_ > m.current_capacity_ THEN rebuild(S, n) ELSE S

check_rebuild(S, n) ==
    LET m == S.maps[n]
        S1 == IF m.current_size_ * SCALE < m.current_capacity_
              THEN rebuild(S, n) ELSE S
        m1 == S1.maps[n]
    IN IF m1.current_size_ > m1.current_capacity_ THEN rebuild(S1, n) ELSE S1

\* ------------------------------------------------------- member functions
EmptyMap ==
    [table_ |-> cells(MIN_NUM_OF_CELLS),
     current_size_ |-> 0,
     current_capacity_ |-> MIN_NUM_OF_CELLS]

\* the pair insert appends to cell hash, and the size it counts
push_back(S, n, hash, key, value) ==
    LET p == new_pair(S.heap, key)
    IN [S EXCEPT
          !.heap = [a \in DOMAIN S.heap \cup {p} |->
                      IF a = p THEN [first |-> key, second |-> value]
                      ELSE S.heap[a]],
          !.maps[n].table_[hash + 1] = Append(@, p),
          !.maps[n].current_size_ = @ + 1]

\* an insert that does not look for the key first
insert_no_scan(S, n, key, value) ==
    LET hash == hasher_(key) % S.maps[n].current_capacity_
    IN check_rebuild(push_back(S, n, hash, key, value), n)

\* an insert that stores a default-constructed value
insert_default_value(S, n, key, value) ==
    LET m == S.maps[n]
        hash == hasher_(key) % m.current_capacity_
    IN IF scan(S.heap, cell_of(m, hash), key, 1) # 0 THEN S
       ELSE check_rebuild(push_back(S, n, hash, key, DefaultValue), n)

\* an insert that overwrites the value of a key it finds
insert_overwrite(S, n, key, value) ==
    LET m == S.maps[n]
        hash == hasher_(key) % m.current_capacity_
        i == scan(S.heap, cell_of(m, hash), key, 1)
    IN IF i # 0
       THEN [S EXCEPT !.heap =
               [a \in DOMAIN S.heap |->
                  IF a = cell_of(m, hash)[i]
                  THEN [first |-> key, second |-> value] ELSE S.heap[a]]]
       ELSE check_rebuild(push_back(S, n, hash, key, value), n)

\* an insert that does not run the rebuild check
insert_no_check(S, n, key, value) ==
    LET m == S.maps[n]
        hash == hasher_(key) % m.current_capacity_
    IN IF scan(S.heap, cell_of(m, hash), key, 1) # 0 THEN S
       ELSE push_back(S, n, hash, key, value)

insert(S, n, key, value) ==
    LET m == S.maps[n]
        hash == hasher_(key) % m.current_capacity_
    IN IF scan(S.heap, cell_of(m, hash), key, 1) # 0 THEN S
       ELSE check_rebuild(push_back(S, n, hash, key, value), n)

\* vector::erase(begin() + i), for i counted from 1
remove_at(c, i) == SubSeq(c, 1, i - 1) \o SubSeq(c, i + 1, Len(c))

\* an erase that forgets to count the size down
erase_keep_size(S, n, key) ==
    LET m == S.maps[n]
        hash == hasher_(key) % m.current_capacity_
        i == scan(S.heap, cell_of(m, hash), key, 1)
    IN IF i = 0 THEN S
       ELSE release(check_rebuild(
                [S EXCEPT !.maps[n].table_[hash + 1] = remove_at(@, i)], n))

\* an erase that removes the first pair of the cell, not the one it found
erase_first(S, n, key) ==
    LET m == S.maps[n]
        hash == hasher_(key) % m.current_capacity_
        i == scan(S.heap, cell_of(m, hash), key, 1)
    IN IF i = 0 THEN S
       ELSE release(check_rebuild(
                [S EXCEPT !.maps[n].table_[hash + 1] = remove_at(@, 1),
                          !.maps[n].current_size_ = @ - 1], n))

\* an erase that moves the last pair of the cell into the place of the one it
\* removes
erase_swap_last(S, n, key) ==
    LET m == S.maps[n]
        hash == hasher_(key) % m.current_capacity_
        c == cell_of(m, hash)
        i == scan(S.heap, c, key, 1)
    IN IF i = 0 THEN S
       ELSE LET moved == IF i = Len(c) THEN SubSeq(c, 1, i - 1)
                         ELSE SubSeq(c, 1, i - 1) \o <<c[Len(c)]>>
                                  \o SubSeq(c, i + 1, Len(c) - 1)
                S1 == [S EXCEPT
                         !.maps[n].table_[hash + 1] = moved,
                         !.maps[n].current_size_ = @ - 1]
            IN release(check_rebuild(S1, n))

erase(S, n, key) ==
    LET m == S.maps[n]
        hash == hasher_(key) % m.current_capacity_
        i == scan(S.heap, cell_of(m, hash), key, 1)
    IN IF i = 0 THEN S
       ELSE LET S1 == [S EXCEPT
                         !.maps[n].table_[hash + 1] = remove_at(@, i),
                         !.maps[n].current_size_ = @ - 1]
            IN release(check_rebuild(S1, n))

\* the loop of clear: table_[i].clear() for i < current_capacity_
RECURSIVE clear_cells(_, _)
clear_cells(table, i) ==
    IF i = 0 THEN table
    ELSE clear_cells([table EXCEPT ![i] = <<>>], i - 1)

\* a clear that empties the cells and does not rebuild
clear_no_rebuild(S, n) ==
    LET m == S.maps[n]
    IN release([S EXCEPT
                  !.maps[n].table_ = clear_cells(@, m.current_capacity_),
                  !.maps[n].current_size_ = 0])

clear(S, n) ==
    LET m == S.maps[n]
        S1 == [S EXCEPT
                 !.maps[n].table_ = clear_cells(@, m.current_capacity_),
                 !.maps[n].current_size_ = 0]
    IN release(rebuild(S1, n))

\* iterator::find_valid_cell
RECURSIVE find_valid_cell(_, _, _)
find_valid_cell(m, cell, positon) ==
    IF cell < Len(m.table_) /\ positon = Len(cell_of(m, cell))
    THEN find_valid_cell(m, cell + 1, 0)
    ELSE [cell |-> cell, positon |-> positon]

\* iterator(outer, cell, positon)
iterator(m, cell, positon) == find_valid_cell(m, cell, positon)

begin(m) == iterator(m, 0, 0)
end(m) == iterator(m, Len(m.table_), 0)

\* an increment that does not look for the next valid cell
increment_no_skip(m, it) == [cell |-> it.cell, positon |-> it.positon + 1]

\* iterator::operator++
increment(m, it) == find_valid_cell(m, it.cell, it.positon + 1)

\* the iterator designates a position inside a cell of the table
in_range(m, it) ==
    /\ it.cell < Len(m.table_)
    /\ it.positon < Len(cell_of(m, it.cell))

find(ms, hp, n, key) ==
    LET m == ms[n]
        hash == hasher_(key) % m.current_capacity_
        i == scan(hp, cell_of(m, hash), key, 1)
    IN IF i # 0 THEN iterator(m, hash, i - 1) ELSE end(m)

\* iterator::operator* : the address of the pair the iterator designates
deref(m, it) == cell_of(m, it.cell)[it.positon + 1]

\* an at that returns a default value for a key it does not find
at_default(ms, hp, n, key) ==
    LET m == ms[n]
        hash == hasher_(key) % m.current_capacity_
        i == scan(hp, cell_of(m, hash), key, 1)
    IN IF i # 0
       THEN [thrown |-> FALSE, value |-> hp[cell_of(m, hash)[i]].second]
       ELSE [thrown |-> FALSE, value |-> DefaultValue]

\* at: the value, or the std::out_of_range it throws
at(ms, hp, n, key) ==
    LET m == ms[n]
        hash == hasher_(key) % m.current_capacity_
        i == scan(hp, cell_of(m, hash), key, 1)
    IN IF i # 0
       THEN [thrown |-> FALSE, value |-> hp[cell_of(m, hash)[i]].second]
       ELSE [thrown |-> TRUE, value |-> DefaultValue]

\* the address of the pair operator[] finds in the cell of key, or NullRef
lookup(S, n, key) ==
    LET m == S.maps[n]
        hash == hasher_(key) % m.current_capacity_
        i == scan(S.heap, cell_of(m, hash), key, 1)
    IN IF i # 0 THEN cell_of(m, hash)[i] ELSE NullRef

\* an operator[] that appends the new pair itself and runs no rebuild check
index_no_rebuild(S, n, key) ==
    IF lookup(S, n, key) # NullRef
    THEN [store |-> S, ref |-> lookup(S, n, key)]
    ELSE LET hash == hasher_(key) % S.maps[n].current_capacity_
             S1 == push_back(S, n, hash, key, DefaultValue)
         IN [store |-> S1, ref |-> lookup(S1, n, key)]

\* operator[]: the store it leaves and the pair whose value it returns a
\* reference to (NullRef if the second lookup were to miss again)
index(S, n, key) ==
    IF lookup(S, n, key) # NullRef
    THEN [store |-> S, ref |-> lookup(S, n, key)]
    ELSE LET S1 == insert(S, n, key, DefaultValue)
         IN [store |-> S1, ref |-> lookup(S1, n, key)]

\* operator=(const HashMap& other)
copy_assign(S, dst, src) ==
    release([S EXCEPT !.maps[dst] =
                [table_ |-> S.maps[src].table_,
                 current_size_ |-> S.maps[src].current_size_,
                 current_capacity_ |-> S.maps[src].current_capacity_]])

\* HashMap(const HashMap& other), the new object taking the name dst
copy_construct(S, dst, src) ==
    release([S EXCEPT !.maps[dst] =
                [table_ |-> S.maps[src].table_,
                 current_size_ |-> S.maps[src].current_size_,
                 current_capacity_ |-> S.maps[src].current_capacity_]])

\* operator=(const HashMap&& other): other is const, so std::move(other.table_)
\* is a const rvalue and the vector is copied
move_assign(S, dst, src) ==
    release([S EXCEPT !.maps[dst] =
                [table_ |-> S.maps[src].table_,
                 current_size_ |-> S.maps[src].current_size_,
                 current_capacity_ |-> S.maps[src].current_capacity_]])

\* ------------------------------------------------------------ observations
\* for (it = m.begin(); it != m.end(); ++it) seen.push_back(*it), given up
\* after fuel steps.  ended: the loop left because it == end(); safe: no *it
\* was applied outside a cell; seen: the addresses *it gave, in order
RECURSIVE traverse(_, _, _, _)
traverse(m, it, seen, fuel) ==
    IF it = end(m) THEN [ended |-> TRUE, safe |-> TRUE, seen |-> seen]
    ELSE IF fuel = 0 THEN [ended |-> FALSE, safe |-> TRUE, seen |-> seen]
    ELSE IF ~in_range(m, it) THEN [ended |-> FALSE, safe |-> FALSE, seen |-> seen]
    ELSE traverse(m, increment(m, it), Append(seen, deref(m, it)), fuel - 1)

\* a full traversal; no loop over a table takes more steps than the table has
\* cells and entries
traversal(m) ==
    traverse(m, begin(m), <<>>, m.current_capacity_ + m.current_size_)

size(m) == m.current_size_
empty(m) == size(m) = 0

\* the pairs of a container in iteration order, as <<key, value>>
Pairs(ms, hp, n) ==
    LET ptrs == all_ptrs(ms[n].table_)
    IN [i \in 1..Len(ptrs) |-> <<hp[ptrs[i]].first, hp[ptrs[i]].second>>]

KeysOf(ms, hp, n) == {hp[a].first : a \in ptr_set(ms[n].table_)}

Has(ms, hp, n, key) == key \in KeysOf(ms, hp, n)

\* the values stored under a key anywhere in the table
ValuesOf(ms, hp, n, key) ==
    {hp[a].second : a \in {b \in ptr_set(ms[n].table_) : hp[b].first = key}}

\* ------------------------------------------------------------------ actions
\* what the last call was: the member function, the container it ran on, the
\* value it was given, whether its scan of the cell found the key, how many
\* times it called rebuild(), and whether it left the container with another
\* capacity than it had
Call(op, n, value, found, S) ==
    [op |-> op, map |-> n, val |-> value, found |-> found, rebuilt |-> S.rebuilt,
     resized |-> S.maps[n].current_capacity_ # maps[n].current_capacity_]

Commit(S) ==
    /\ maps' = S.maps
    /\ heap' = S.heap

\* ref.second = value
write(hp, ref, value) ==
    [a \in DOMAIN hp |->
        IF a = ref THEN [first |-> hp[a].first, second |-> value] ELSE hp[a]]

Init ==
    /\ maps = [n \in MapNames |-> EmptyMap]
    /\ heap = <<>>
    /\ last = [op |-> "construct", map |-> "A", val |-> DefaultValue,
               found |-> FALSE, rebuilt |-> 0, resized |-> FALSE]
    /\ borrow = NoBorrow
    /\ inserted = <<>>

\* the call allocates no pair, because its scan finds the key, or the heap of
\* the model has an address left for the pair it allocates
HasRoom(n, key) ==
    IF lookup(Store, n, key) # NullRef THEN TRUE ELSE CanAllocate(heap, key)

\* m.insert({key, value})
Insert(n, key, value) ==
    /\ HasRoom(n, key)
    /\ LET S == insert(Store, n, key, value)
       IN /\ Commit(S)
          /\ last' = Call("insert", n, value, lookup(Store, n, key) # NullRef, S)
          /\ borrow' = borrow
          /\ inserted' = inserted

\* m.erase(key); the caller gives up a reference to the value of that key
Erase(n, key) ==
    LET S == erase(Store, n, key)
    IN /\ Commit(S)
       /\ last' = Call("erase", n, DefaultValue, lookup(Store, n, key) # NullRef, S)
       /\ borrow' = IF borrow.key = key THEN NoBorrow ELSE borrow
       /\ inserted' = inserted

\* m[key];
Index(n, key) ==
    /\ HasRoom(n, key)
    /\ LET r == index(Store, n, key)
       IN /\ Commit(r.store)
          /\ last' = Call("index", n, DefaultValue, lookup(Store, n, key) # NullRef, r.store)
          /\ borrow' = borrow
          /\ inserted' = inserted

\* m[key] = value;
Assign(n, key, value) ==
    /\ HasRoom(n, key)
    /\ LET r == index(Store, n, key)
       IN /\ maps' = r.store.maps
          /\ heap' = write(r.store.heap, r.ref, value)
          /\ last' = Call("assign", n, value, lookup(Store, n, key) # NullRef, r.store)
          /\ borrow' = borrow
          /\ inserted' = inserted

\* m.at(key): the call returns a value (last.val) or throws (last.found is false)
At(n, key) ==
    LET r == at(maps, heap, n, key)
    IN /\ maps' = maps
       /\ heap' = heap
       /\ last' = [op |-> "at", map |-> n, val |-> r.value, found |-> ~r.thrown,
                   rebuilt |-> 0, resized |-> FALSE]
       /\ borrow' = borrow
       /\ inserted' = inserted

\* m.clear(); the caller gives up the reference it holds
Clear(n) ==
    LET S == clear(Store, n)
    IN /\ Commit(S)
       /\ last' = Call("clear", n, DefaultValue, FALSE, S)
       /\ borrow' = NoBorrow
       /\ inserted' = inserted

\* ValueType& r = m[key];  the caller keeps the reference
Borrow(n, key) ==
    /\ HasRoom(n, key)
    /\ LET r == index(Store, n, key)
       IN /\ Commit(r.store)
          /\ last' = Call("borrow", n, DefaultValue, lookup(Store, n, key) # NullRef, r.store)
          /\ borrow' = [key |-> key, ref |-> r.ref,
                        capacity |-> r.store.maps[n].current_capacity_]
          /\ inserted' = inserted

\* r = value;  through the reference the caller kept
WriteBorrow(value) ==
    /\ borrow.ref # NullRef
    /\ maps' = maps
    /\ heap' = write(heap, borrow.ref, value)
    /\ last' = [op |-> "write", map |-> "A", val |-> value, found |-> TRUE,
                rebuilt |-> 0, resized |-> FALSE]
    /\ borrow' = borrow
    /\ inserted' = inserted

\* dst = src;
CopyAssign(dst, src) ==
    LET S == copy_assign(Store, dst, src)
    IN /\ Commit(S)
       /\ last' = Call("copy_assign", dst, DefaultValue, FALSE, S)
       /\ borrow' = borrow
       /\ inserted' = inserted

\* the object dst goes out of scope and  HashMap dst(src);  declares it anew
CopyConstruct(dst, src) ==
    LET S == copy_construct(Store, dst, src)
    IN /\ Commit(S)
       /\ last' = Call("copy_construct", dst, DefaultValue, FALSE, S)
       /\ borrow' = borrow
       /\ inserted' = inserted

\* dst = std::move(src);
MoveAssign(dst, src) ==
    LET S == move_assign(Store, dst, src)
    IN /\ Commit(S)
       /\ last' = Call("move_assign", dst, DefaultValue, FALSE, S)
       /\ borrow' = borrow
       /\ inserted' = inserted

\* m.insert({key, value}); by the caller that lists the keys it adds
InsertListed(key, value) ==
    /\ HasRoom("A", key)
    /\ LET S == insert(Store, "A", key, value)
       IN /\ Commit(S)
          /\ last' = Call("insert", "A", value, lookup(Store, "A", key) # NullRef, S)
    /\ borrow' = borrow
    /\ inserted' = IF lookup(Store, "A", key) # NullRef THEN inserted
                   ELSE Append(inserted, key)

\* m.erase(key); by the caller that lists the keys it adds
EraseListed(key) ==
    LET S == erase(Store, "A", key)
        Other_key(k) == k # key
    IN /\ Commit(S)
       /\ last' = Call("erase", "A", DefaultValue, lookup(Store, "A", key) # NullRef, S)
       /\ borrow' = IF borrow.key = key THEN NoBorrow ELSE borrow
       /\ inserted' = SelectSeq(inserted, Other_key)

\* the keys the next call on container n may be about: a free key, the
\* largest filler present or the smallest filler absent
CallKeys(n) ==
    LET present == KeysOf(maps, heap, n) \cap Fillers
        absent == Fillers \ present
    IN FreeKeys \cup {k \in present : \A j \in present : j <= k}
                \cup {k \in absent : \A j \in absent : j >= k}

ValuesFor(key) == IF key \in ValuedKeys THEN Vals ELSE {DefaultValue}

\* one container, filled and emptied across the rebuild thresholds
Next ==
    \/ \E key \in CallKeys("A") : \E value \in ValuesFor(key) : Insert("A", key, value)
    \/ \E key \in CallKeys("A") : Erase("A", key)
    \/ \E key \in CallKeys("A") : Index("A", key)
    \/ Clear("A")
    \/ \E key \in ValuedKeys : Borrow("A", key)
    \/ \E value \in Vals : WriteBorrow(value)

Spec == Init /\ [][Next]_vars

\* one container under insert, erase, operator[], at and clear
CallNext ==
    \/ \E key \in CallKeys("A") : \E value \in ValuesFor(key) : Insert("A", key, value)
    \/ \E key \in CallKeys("A") : Erase("A", key)
    \/ \E key \in CallKeys("A") : Index("A", key)
    \/ \E key \in CallKeys("A") : At("A", key)
    \/ Clear("A")

CallSpec == Init /\ [][CallNext]_vars

\* one container under the inserts and erases of the caller that lists the keys
\* it adds
ListedKeys == CallKeys("A") \cap (0..MaxListedKey)

ListedNext ==
    \/ \E key \in ListedKeys : InsertListed(key, DefaultValue)
    \/ \E key \in ListedKeys : EraseListed(key)

ListedSpec == Init /\ [][ListedNext]_vars

\* the keys 1..20 are inserted in order, key i with the value i * i, into a
\* container that starts empty, and looked up with at in between
ScenarioKeys == 1..20

ScenarioInsert(n) ==
    LET i == maps[n].current_size_ + 1
    IN /\ i \in ScenarioKeys
       /\ Insert(n, i, i * i)

ScenarioNext ==
    \/ ScenarioInsert("A")
    \/ \E key \in ScenarioKeys : At("A", key)

ScenarioSpec == Init /\ [][ScenarioNext]_vars

\* two containers over the free keys, copied and moved into each other
Other(n) == CHOOSE o \in MapNames : o # n

CopyNext ==
    \/ \E n \in MapNames : \E key \in CopyKeys : \E value \in ValuesFor(key) :
          Insert(n, key, value)
    \/ \E n \in MapNames : \E key \in CopyKeys : Erase(n, key)
    \/ \E n \in MapNames : \E key \in CopyKeys : \E value \in Vals :
          Assign(n, key, value)
    \/ \E n \in MapNames : CopyAssign(n, Other(n))
    \/ \E n \in MapNames : CopyConstruct(n, Other(n))
    \/ \E n \in MapNames : MoveAssign(n, Other(n))

CopySpec == Init /\ [][CopyNext]_vars

\* ------------------------------------------------------------------- claims
A == maps["A"]

ByInsertOrErase == last.op \in {"insert", "erase"}

\* C1 as stated: once an insert or erase call has returned, size * 4 >= capacity,
\* size <= capacity and capacity >= MIN_NUM_OF_CELLS, whatever the size is.
C1_LoadFactorAnySize ==
    ByInsertOrErase =>
        \A n \in MapNames :
            /\ maps[n].current_size_ * SCALE >= maps[n].current_capacity_
            /\ maps[n].current_size_ <= maps[n].current_capacity_
            /\ maps[n].current_capacity_ >= MIN_NUM_OF_CELLS

\* C1 amended: once an insert or erase call has returned, size <= capacity and
\* capacity >= MIN_NUM_OF_CELLS hold, and size * 4 >= capacity holds whenever the
\* resulting size is at least 3; a table of fewer than 3 entries has exactly
\* MIN_NUM_OF_CELLS cells.
C1_LoadFactor ==
    ByInsertOrErase =>
        \A n \in MapNames :
            /\ maps[n].current_size_ <= maps[n].current_capacity_
            /\ maps[n].current_capacity_ >= MIN_NUM_OF_CELLS
            /\ maps[n].current_size_ >= 3 =>
                  maps[n].current_size_ * SCALE >= maps[n].current_capacity_
            /\ maps[n].current_size_ < 3 =>
                  maps[n].current_capacity_ = MIN_NUM_OF_CELLS

\* an insert has just grown the table from 10 to 22 cells
C1_Witness ==
    /\ last.op = "insert"
    /\ last.rebuilt = 1
    /\ A.current_size_ = MIN_NUM_OF_CELLS + 1
    /\ A.current_capacity_ = 2 * (MIN_NUM_OF_CELLS + 1)

\* C2: no two entries anywhere in the cell array have equal keys.
C2_KeysUnique ==
    \A n \in MapNames :
        LET ptrs == all_ptrs(maps[n].table_)
        IN \A i, j \in 1..Len(ptrs) :
              i # j => heap[ptrs[i]].first # heap[ptrs[j]].first

\* two keys share a cell after an insert of a key that was already there
C2_Witness ==
    /\ last.op = "insert"
    /\ last.found
    /\ \E c \in 1..Len(A.table_) : Len(A.table_[c]) >= 2

\* C3: size() is the number of entries stored over all cells.
C3_SizeIsCount ==
    \A n \in MapNames : maps[n].current_size_ = Len(all_ptrs(maps[n].table_))

\* an erase has removed an entry and left others
C3_Witness ==
    /\ last.op = "erase"
    /\ last.found
    /\ A.current_size_ >= 2

\* C4: the cell array has exactly current_capacity_ cells, every pair is pointed to
\* from exactly one place, which is in cell hash(key) mod capacity, and find
\* reaches every live entry.
C4_Placement ==
    \A n \in MapNames :
        LET m == maps[n]
            ptrs == all_ptrs(m.table_)
        IN /\ Len(m.table_) = m.current_capacity_
           /\ \A i, j \in 1..Len(ptrs) : i # j => ptrs[i] # ptrs[j]
           /\ \A c \in 1..Len(m.table_) : \A i \in 1..Len(m.table_[c]) :
                 hasher_(heap[m.table_[c][i]].first) % m.current_capacity_ = c - 1
           /\ \A k \in KeysOf(maps, heap, n) :
                 /\ find(maps, heap, n, k) # end(m)
                 /\ heap[deref(m, find(maps, heap, n, k))].first = k

\* a rebuild has just moved two keys that shared cell 0 into different cells
C4_Witness ==
    /\ last.rebuilt = 1
    /\ A.current_capacity_ = 2 * (MIN_NUM_OF_CELLS + 1)
    /\ {0, MIN_NUM_OF_CELLS} \subseteq KeysOf(maps, heap, "A")

\* C5: insert(k, v) of an absent key k, with or without a rebuild: afterwards
\* find(k) is not end() and designates the pair (k, v), at(k) returns v, the size
\* has grown by exactly 1, and every key present before is still found with the
\* value it had.
C5_InsertRoundTrip ==
    [][last'.op = "insert" =>
        LET before == Pairs(maps, heap, "A")
            m == maps'["A"]
        IN \A key \in CallKeys("A") : \A value \in ValuesFor(key) :
            (Insert("A", key, value)
               /\ \A i \in 1..Len(before) : before[i][1] # key) =>
                /\ find(maps', heap', "A", key) # end(m)
                /\ heap'[deref(m, find(maps', heap', "A", key))] =
                      [first |-> key, second |-> value]
                /\ at(maps', heap', "A", key) = [thrown |-> FALSE, value |-> value]
                /\ m.current_size_ = A.current_size_ + 1
                /\ \A i \in 1..Len(before) :
                      /\ find(maps', heap', "A", before[i][1]) # end(m)
                      /\ heap'[deref(m, find(maps', heap', "A", before[i][1]))] =
                            [first |-> before[i][1], second |-> before[i][2]]
                      /\ at(maps', heap', "A", before[i][1]) =
                            [thrown |-> FALSE, value |-> before[i][2]]]_vars

\* an insert of an absent key has just grown the table a second time
C5_Witness ==
    /\ last.op = "insert"
    /\ ~last.found
    /\ last.rebuilt = 1
    /\ A.current_capacity_ > 2 * (MIN_NUM_OF_CELLS + 1)

\* C6: insert(k, v2) on a table that holds k changes nothing: not the stored
\* value, not the size, the capacity or the cells, and it runs no rebuild.
C6_InsertExistingNoOp ==
    [][last'.op = "insert" =>
        \A key \in CallKeys("A") : \A value \in ValuesFor(key) :
            (Insert("A", key, value) /\ Has(maps, heap, "A", key)) =>
                /\ maps' = maps
                /\ heap' = heap
                /\ last'.rebuilt = 0]_vars

\* an insert with another value than the stored one has returned
C6_Witness ==
    /\ last.op = "insert"
    /\ last.found
    /\ last.val # DefaultValue
    /\ ValuesOf(maps, heap, "A", ValuedKey) = {DefaultValue}

\* C7: erase(k) of a present key: afterwards find(k) is end(), the size has
\* shrunk by exactly 1 and every other key is still found with the value it had,
\* also after a shrinking rebuild; erase(k) of an absent key changes nothing.
C7_EraseCorrect ==
    [][last'.op = "erase" =>
        LET before == Pairs(maps, heap, "A")
            m == maps'["A"]
        IN \A key \in CallKeys("A") :
            Erase("A", key) =>
                IF \E i \in 1..Len(before) : before[i][1] = key
                THEN /\ find(maps', heap', "A", key) = end(m)
                     /\ ~Has(maps', heap', "A", key)
                     /\ m.current_size_ = A.current_size_ - 1
                     /\ \A i \in 1..Len(before) :
                           before[i][1] # key =>
                              /\ find(maps', heap', "A", before[i][1]) # end(m)
                              /\ heap'[deref(m, find(maps', heap', "A", before[i][1]))] =
                                    [first |-> before[i][1], second |-> before[i][2]]
                              /\ at(maps', heap', "A", before[i][1]) =
                                    [thrown |-> FALSE, value |-> before[i][2]]
                ELSE /\ maps' = maps
                     /\ heap' = heap
                     /\ last'.rebuilt = 0]_vars

\* an erase of a present key has just shrunk the table from 46 to 22 cells
C7_Witness ==
    /\ last.op = "erase"
    /\ last.found
    /\ last.rebuilt = 1
    /\ A.current_size_ = MIN_NUM_OF_CELLS + 1
    /\ A.current_capacity_ = 2 * (MIN_NUM_OF_CELLS + 1)

\* C8 as stated: a call on one container (insert, erase, or a write to the value
\* of a key through operator[]) leaves what the other container holds and returns
\* for every key unchanged, also after one was made as a copy of the other.
C8_CopyIndependent ==
    [][last'.op \in {"insert", "erase", "assign"} =>
        LET o == Other(last'.map)
        IN /\ Pairs(maps', heap', o) = Pairs(maps, heap, o)
           /\ \A k \in Keys : at(maps', heap', o, k) = at(maps, heap, o, k)]_vars

\* C9 as stated: after dst = std::move(src), dst holds the entries, size and
\* capacity src had, and src is empty: its size is 0 and begin() == end().
C9_MoveEmptiesSource ==
    [][last'.op = "move_assign" =>
        LET dst == last'.map
            src == Other(dst)
        IN /\ Pairs(maps', heap', dst) = Pairs(maps, heap, src)
           /\ maps'[dst].current_size_ = maps[src].current_size_
           /\ maps'[dst].current_capacity_ = maps[src].current_capacity_
           /\ maps'[src].current_size_ = 0
           /\ begin(maps'[src]) = end(maps'[src])]_vars

\* the reference the caller holds is bound to the live pair the table has for
\* its key
BorrowDenotes(ms, hp, bw) ==
    bw.ref # NullRef =>
        /\ bw.ref \in DOMAIN hp
        /\ hp[bw.ref].first = bw.key
        /\ lookup([maps |-> ms, heap |-> hp, rebuilt |-> 0], "A", bw.key) = bw.ref
        /\ at(ms, hp, "A", bw.key) = [thrown |-> FALSE, value |-> hp[bw.ref].second]

\* C10: an insert or erase that rebuilds re-links the very same pair objects: none
\* is created besides the inserted one, none is dropped besides the erased one,
\* none is duplicated and none is changed.  So a reference to the value of a key,
\* taken before any number of rebuilds, stays bound to the pair the table has for
\* that key, and a write through it is what at(k) returns afterwards.
C10_ReferenceStable ==
    [][/\ BorrowDenotes(maps', heap', borrow')
       /\ (last'.op \in {"insert", "erase"} /\ last'.rebuilt > 0) =>
             LET old == Range(all_ptrs(A.table_))
                 new == Range(all_ptrs(maps'["A"].table_))
             IN /\ Len(all_ptrs(maps'["A"].table_)) = Cardinality(new)
                /\ \A a \in new \cap old : heap'[a] = heap[a]
                /\ last'.op = "insert" =>
                      old \subseteq new /\ Cardinality(new \ old) <= 1
                /\ last'.op = "erase" =>
                      new \subseteq old /\ Cardinality(old \ new) <= 1
       /\ last'.op = "write" =>
             at(maps', heap', "A", borrow.key) =
                 [thrown |-> FALSE, value |-> last'.val]]_vars

\* a write through a reference that was taken when the table had 10 cells and
\* that has since seen the table grow twice
C10_Witness ==
    /\ last.op = "write"
    /\ last.val # DefaultValue
    /\ borrow.ref # NullRef
    /\ borrow.capacity = MIN_NUM_OF_CELLS
    /\ A.current_capacity_ > 2 * (MIN_NUM_OF_CELLS + 1)

\* C11: a traversal from begin() by ++ until the cursor equals end() terminates,
\* applies * only to positions inside a cell, which hold live pairs, yields exactly
\* size() entries and no key twice; begin() == end() exactly when the table is
\* empty.
C11_IterationComplete ==
    \A n \in MapNames :
        LET m == maps[n]
            t == traversal(m)
        IN /\ t.ended
           /\ t.safe
           /\ Range(t.seen) \subseteq DOMAIN heap
           /\ Len(t.seen) = size(m)
           /\ \A i, j \in 1..Len(t.seen) :
                 i # j => heap[t.seen[i]].first # heap[t.seen[j]].first
           /\ (begin(m) = end(m)) <=> empty(m)

\* an erase has left a table of 22 cells whose first cell is empty, so that
\* begin() has to skip it, and in which a later cell is followed by an empty one
C11_Witness ==
    /\ last.op = "erase"
    /\ last.found
    /\ A.current_capacity_ = 2 * (MIN_NUM_OF_CELLS + 1)
    /\ A.table_[1] = <<>>
    /\ \E c \in 2..(Len(A.table_) - 1) : A.table_[c] # <<>> /\ A.table_[c + 1] = <<>>

\* C12: at(key) on a key that has no entry throws, at(key) on a key that has one
\* returns the value stored under that key, and in both cases the cells, the size,
\* the capacity and the pairs are what they were.
C12_AtNotFound ==
    [][last'.op = "at" =>
        \A key \in CallKeys("A") :
            At("A", key) =>
                /\ maps' = maps
                /\ heap' = heap
                /\ IF Has(maps, heap, "A", key)
                   THEN last'.found /\ ValuesOf(maps, heap, "A", key) = {last'.val}
                   ELSE ~last'.found]_vars

\* at has thrown on a table of 22 cells that holds other keys in the cell it
\* searched
C12_Witness ==
    /\ last.op = "at"
    /\ ~last.found
    /\ A.current_capacity_ = 2 * (MIN_NUM_OF_CELLS + 1)
    /\ ~Has(maps, heap, "A", ValuedKey)
    /\ cell_of(A, hasher_(ValuedKey) % A.current_capacity_) # <<>>

\* C13: m[k] on a present key returns a reference to the value of the pair the
\* table has for k and changes nothing.  On an absent key it creates exactly one
\* pair, (k, default value), so that the size grows by 1; the rebuild check runs,
\* i.e. the table is rebuilt exactly if the new size is outside [capacity / 4,
\* capacity]; and the reference returned is bound to the new pair where the table
\* has it after that rebuild.  The second lookup of operator[] finds the key, so
\* the call returns.
C13_IndexedAccess ==
    [][last'.op = "index" =>
        \A key \in CallKeys("A") :
            Index("A", key) =>
                LET r == index(Store, "A", key)
                    m == maps'["A"]
                    new_size == A.current_size_ + 1
                IN IF Has(maps, heap, "A", key)
                   THEN /\ maps' = maps
                        /\ heap' = heap
                        /\ last'.rebuilt = 0
                        /\ r.ref \in ptr_set(A.table_)
                        /\ heap[r.ref].first = key
                   ELSE /\ r.ref # NullRef
                        /\ r.ref \notin DOMAIN heap
                        /\ DOMAIN heap' = DOMAIN heap \cup {r.ref}
                        /\ \A a \in DOMAIN heap : heap'[a] = heap[a]
                        /\ heap'[r.ref] = [first |-> key, second |-> DefaultValue]
                        /\ m.current_size_ = new_size
                        /\ Len(all_ptrs(m.table_)) = new_size
                        /\ cell_of(m, hasher_(key) % m.current_capacity_)
                              [scan(heap', cell_of(m, hasher_(key) % m.current_capacity_),
                                    key, 1)] = r.ref
                        /\ at(maps', heap', "A", key) =
                              [thrown |-> FALSE, value |-> DefaultValue]
                        /\ last'.rebuilt > 0 <=>
                              \/ new_size * SCALE < A.current_capacity_
                              \/ new_size > A.current_capacity_
                        /\ last'.rebuilt > 0 =>
                              m.current_capacity_ = Max(MIN_NUM_OF_CELLS, 2 * new_size)
                        /\ last'.rebuilt = 0 =>
                              m.current_capacity_ = A.current_capacity_]_vars

\* m[k] on an absent key has just grown the table from 10 to 22 cells
C13_Witness ==
    /\ last.op = "index"
    /\ ~last.found
    /\ last.rebuilt = 1
    /\ A.current_size_ = MIN_NUM_OF_CELLS + 1
    /\ A.current_capacity_ = 2 * (MIN_NUM_OF_CELLS + 1)

\* the state right after  HashMap<int, int> m;
Fresh == [maps |-> [n \in MapNames |-> EmptyMap], heap |-> <<>>, rebuilt |-> 0]

\* C14: once clear() has returned, the size is 0, the capacity is
\* MIN_NUM_OF_CELLS, the table has exactly that many cells and all are empty,
\* find(k) is end() for every key, and an insert does to the table what it does to
\* a freshly constructed one.
C14_ClearResets ==
    last.op = "clear" =>
        /\ A.current_size_ = 0
        /\ A.current_capacity_ = MIN_NUM_OF_CELLS
        /\ Len(A.table_) = MIN_NUM_OF_CELLS
        /\ \A c \in 1..Len(A.table_) : A.table_[c] = <<>>
        /\ \A key \in Keys : find(maps, heap, "A", key) = end(A)
        /\ \A key \in Keys : \A value \in ValuesFor(key) :
              LET S == insert(Store, "A", key, value)
                  F == insert(Fresh, "A", key, value)
              IN /\ S.maps["A"] = F.maps["A"]
                 /\ Pairs(S.maps, S.heap, "A") = Pairs(F.maps, F.heap, "A")
                 /\ S.rebuilt = F.rebuilt

\* clear() has returned on a table that had more than MIN_NUM_OF_CELLS cells
C14_Witness ==
    /\ last.op = "clear"
    /\ last.resized
    /\ A.current_size_ = 0

\* C15 as stated: from an empty table of capacity 10, with the keys 1..20 inserted
\* in order with the values i * i, the 11th insert rebuilds to capacity 22, and
\* after all 20 inserts size = 20, capacity = 40 and at(15) returns 225.
C15_GrowthTo40 ==
    /\ (last.op = "insert" /\ A.current_size_ = 11) =>
          /\ last.rebuilt = 1
          /\ A.current_capacity_ = 22
    /\ A.current_size_ = 20 =>
          /\ A.current_capacity_ = 40
          /\ at(maps, heap, "A", 15) = [thrown |-> FALSE, value |-> 225]

\* C15 amended: the 11th insert rebuilds to capacity 22, the inserts before it
\* leave the capacity at 10, the inserts after it run no rebuild, and after all 20
\* inserts size = 20, capacity = 22 and at(15) returns 225.
C15_GrowthTo22 ==
    /\ last.op = "insert" =>
          /\ (A.current_size_ = 11) => (last.rebuilt = 1 /\ last.resized)
          /\ (A.current_size_ > 11) => (last.rebuilt = 0 /\ ~last.resized)
    /\ A.current_size_ < 11 => A.current_capacity_ = 10
    /\ A.current_size_ >= 11 => A.current_capacity_ = 22
    /\ A.current_size_ = 20 =>
          /\ Len(all_ptrs(A.table_)) = 20
          /\ at(maps, heap, "A", 15) = [thrown |-> FALSE, value |-> 225]

\* the 20th insert has returned
C15_Witness ==
    /\ last.op = "insert"
    /\ A.current_size_ = 20
    /\ KeysOf(maps, heap, "A") = ScenarioKeys

\* the keys of the pairs of a cell, in the order of the cell
cell_keys(hp, c) == [i \in 1..Len(c) |-> hp[c[i]].first]

\* the place of a key in the list of the keys the caller has added
Place(key) == CHOOSE p \in 1..Len(inserted) : inserted[p] = key

\* C16 as stated: in every reachable state, also after rebuilds, the entries of
\* each cell stand in the order in which they were inserted into the table: of any
\* two entries of one cell, the one inserted earlier comes first.
C16_InsertionOrder ==
    \A c \in 1..Len(A.table_) :
        LET ks == cell_keys(heap, A.table_[c])
        IN \A i, j \in 1..Len(ks) : i < j => Place(ks[i]) < Place(ks[j])

\* the concatenation of the sequences t[i], t[i + 1], ...
RECURSIVE concat_from(_, _)
concat_from(t, i) == IF i > Len(t) THEN <<>> ELSE t[i] \o concat_from(t, i + 1)

\* C16 amended: an insert appends the new entry at the end of its cell and an
\* erase keeps the order of the entries that remain, so between rebuilds the
\* entries of a cell that were put there by inserts stand in insertion order.  A
\* rebuild puts the entries that land in the same new cell in the order in which a
\* traversal of the old table (cell 0, then cell 1, ...) visits them: entries that
\* come from the same old cell keep their relative order, entries that come from
\* different old cells stand in the order of the old cell indices, whichever was
\* inserted first.
C16_TraversalOrder ==
    [][last'.op \in {"insert", "erase"} =>
        LET m == maps'["A"]
            before == [c \in 1..Len(A.table_) |-> cell_keys(heap, A.table_[c])]
        IN \A key \in ListedKeys :
            (InsertListed(key, DefaultValue) \/ EraseListed(key)) =>
                LET hash == hasher_(key) % A.current_capacity_
                    Other_key(k) == k # key
                    \* the cells once the call has added or removed its entry
                    updated ==
                        [c \in 1..Len(A.table_) |->
                            IF c # hash + 1 THEN before[c]
                            ELSE IF last'.op = "erase"
                                 THEN SelectSeq(before[c], Other_key)
                            ELSE IF last'.found THEN before[c]
                            ELSE Append(before[c], key)]
                    visited == concat_from(updated, 1)
                IN IF last'.rebuilt = 0
                   THEN /\ Len(m.table_) = Len(A.table_)
                        /\ \A c \in 1..Len(m.table_) :
                              cell_keys(heap', m.table_[c]) = updated[c]
                   ELSE \A c \in 1..Len(m.table_) :
                           LET Lands(k) == hasher_(k) % m.current_capacity_ = c - 1
                           IN cell_keys(heap', m.table_[c]) = SelectSeq(visited, Lands)]_vars

\* an erase has shrunk the table and the rebuild has put two entries from
\* different old cells into one cell, the one inserted later first
C16_Witness ==
    /\ last.op = "erase"
    /\ last.rebuilt = 1
    /\ last.resized
    /\ \E c \in 1..Len(A.table_) :
          LET ks == cell_keys(heap, A.table_[c])
          IN \E i, j \in 1..Len(ks) : i < j /\ Place(ks[i]) > Place(ks[j])

\* the keys the step has removed from "A"
Gone == KeysOf(maps, heap, "A") \ KeysOf(maps', heap', "A")

\* the step has removed an entry that stood before the cursor in its cell
ShiftedBy(cursor) ==
    \E k2 \in Gone :
        LET c2 == find(maps, heap, "A", k2)
        IN c2.cell = cursor.cell /\ c2.positon < cursor.positon

\* C17 as stated: a cursor obtained from find(k) designates the entry of k after
\* any insert or erase that neither removes the entry of k nor rebuilds: * is
\* applied inside a cell and gives the pair with key k.
C17_CursorKeeps ==
    [][(last'.op \in {"insert", "erase"} /\ last'.rebuilt = 0) =>
        \A k \in KeysOf(maps, heap, "A") \ Gone :
            LET cursor == find(maps, heap, "A", k)
                m == maps'["A"]
            IN /\ in_range(m, cursor)
               /\ heap'[deref(m, cursor)].first = k]_vars

\* C17 amended: a cursor obtained from find(k) designates the entry of k, the same
\* pair object, after any insert that does not rebuild and after any erase that
\* does not rebuild and removes an entry of another cell or one that stands after
\* the entry of k in its cell.  An erase of an entry that stands before it in the
\* same cell moves the entry of k one position down: the cursor then designates
\* the entry that followed it or a position past the end of the cell, and the
\* entry of k is at the position before the cursor.
C17_CursorKeepsUnlessShifted ==
    [][(last'.op \in {"insert", "erase"} /\ last'.rebuilt = 0) =>
        \A k \in KeysOf(maps, heap, "A") \ Gone :
            LET cursor == find(maps, heap, "A", k)
                m == maps'["A"]
                down == [cell |-> cursor.cell, positon |-> cursor.positon - 1]
            IN IF ShiftedBy(cursor)
               THEN /\ deref(m, down) = deref(A, cursor)
                    /\ in_range(m, cursor) => heap'[deref(m, cursor)].first # k
                    /\ find(maps', heap', "A", k) = down
               ELSE /\ in_range(m, cursor)
                    /\ deref(m, cursor) = deref(A, cursor)
                    /\ heap'[deref(m, cursor)].first = k
                    /\ find(maps', heap', "A", k) = cursor]_vars

\* an erase that did not rebuild has left a cell with two entries of which it
\* removed neither
C17_Witness ==
    /\ last.op = "erase"
    /\ last.found
    /\ last.rebuilt = 0
    /\ \E c \in 1..Len(A.table_) : Len(A.table_[c]) >= 2

\* the (key, value) entries behind a set of addresses, and how many of the
\* addresses hold the entry x
entries(hp, ptrs) == {<<hp[a].first, hp[a].second>> : a \in ptrs}
Count(hp, ptrs, x) ==
    Cardinality({a \in ptrs : hp[a].first = x[1] /\ hp[a].second = x[2]})

\* what C18 says of a call that has added or removed the entry x and so changed
\* the size by d, for the cell hash the call worked on
PolicyKept(x, d, hash) ==
    LET m == maps'["A"]
        before == ptr_set(A.table_)
        after == ptr_set(m.table_)
        new_size == A.current_size_ + d
        due == \/ new_size > A.current_capacity_
               \/ new_size * SCALE < A.current_capacity_
    IN /\ m.current_size_ = new_size
       /\ m.current_capacity_ # A.current_capacity_ => due
       /\ last'.rebuilt > 0 <=> due
       /\ last'.rebuilt > 0 =>
             /\ m.current_capacity_ = Max(MIN_NUM_OF_CELLS, 2 * new_size)
             /\ Len(m.table_) = m.current_capacity_
       /\ Len(all_ptrs(m.table_)) = Cardinality(after)
       /\ \A y \in entries(heap, before) \cup entries(heap', after) :
             Count(heap', after, y) = Count(heap, before, y) + (IF y = x THEN d ELSE 0)
       /\ ~due =>
             /\ m.current_capacity_ = A.current_capacity_
             /\ Len(m.table_) = Len(A.table_)
             /\ \A c \in 1..Len(A.table_) :
                   c # hash + 1 => m.table_[c] = A.table_[c]

\* C18: an insert or erase that adds or removes an entry changes the capacity only
\* if, for the size it has counted, size > capacity or size * 4 < capacity, and it
\* rebuilds exactly then; a rebuild sets the capacity to max(10, 2 * size) for
\* that size and keeps the multiset of (key, value) entries; when the table is
\* not rebuilt, the capacity and every cell but the one of the key are unchanged.
C18_RebuildPolicy ==
    [][last'.op \in {"insert", "erase"} =>
        \A key \in CallKeys("A") :
            LET hash == hasher_(key) % A.current_capacity_
            IN /\ (last'.op = "insert" /\ ~last'.found) =>
                    \A value \in ValuesFor(key) :
                        Insert("A", key, value) =>
                            PolicyKept(<<key, value>>, 1, hash)
               /\ (last'.op = "erase" /\ last'.found) =>
                    (Erase("A", key) =>
                        \A value \in ValuesOf(maps, heap, "A", key) :
                            PolicyKept(<<key, value>>, -1, hash))]_vars

\* an erase has just shrunk the table from 22 to 10 cells
C18_Witness ==
    /\ last.op = "erase"
    /\ last.rebuilt = 1
    /\ last.resized
    /\ A.current_capacity_ = MIN_NUM_OF_CELLS
    /\ A.current_size_ * 2 = MIN_NUM_OF_CELLS

\* C19: in every state the public operations reach, capacity >= 10,
\* size <= capacity, and capacity = 10 or size * 4 >= capacity: the lower load
\* bound holds for every table that has more than the minimal number of cells.
C19_ActualLoadBound ==
    \A n \in MapNames :
        LET m == maps[n]
        IN /\ m.current_capacity_ >= MIN_NUM_OF_CELLS
           /\ m.current_size_ <= m.current_capacity_
           /\ \/ m.current_capacity_ = MIN_NUM_OF_CELLS
              \/ m.current_size_ * SCALE >= m.current_capacity_

\* an erase has left a table of 22 cells with as few entries as the bound allows
C19_Witness ==
    /\ last.op = "erase"
    /\ last.found
    /\ last.rebuilt = 0
    /\ A.current_capacity_ = 2 * (MIN_NUM_OF_CELLS + 1)
    /\ (A.current_size_ - 1) * SCALE < A.current_capacity_

\* C20: if an insert or erase call has changed the capacity, the insert or erase
\* call that follows it immediately does not change the capacity; and no insert
\* or erase call rebuilds twice: in check_rebuild the test for a table that is too
\* full does not fire after the test for a table that is too sparse has rebuilt.
C20_NoThrashing ==
    [][last'.op \in {"insert", "erase"} =>
        /\ last'.rebuilt <= 1
        /\ (last.op \in {"insert", "erase"} /\ last.resized) =>
              /\ ~last'.resized
              /\ maps'["A"].current_capacity_ = A.current_capacity_]_vars

\* an erase has just shrunk the table to 22 cells, which the 11 entries it left
\* fill to one half: inserts and erases follow from here
C20_Witness ==
    /\ last.op = "erase"
    /\ last.resized
    /\ A.current_capacity_ = 2 * (MIN_NUM_OF_CELLS + 1)
    /\ A.current_size_ = MIN_NUM_OF_CELLS + 1

====
